---- MODULE Spec2Model ----
(***************************************************************************)
(* `ionic ssl generate` (packages/ionic/src/commands/ssl/generate.ts):     *)
(* the command resolves its options, ensures the destination directories,  *)
(* asks before overwriting existing key/cert files, unlinks them, writes a *)
(* temporary OpenSSL configuration and runs `openssl req`.                 *)
(*                                                                         *)
(* A path is the sequence of its segments.  A path as the operator types   *)
(* it is a record [abs, segs]; a resolved path is an absolute path, kept   *)
(* as its segments alone.  An option is a record [given, val]: given is    *)
(* FALSE when options[name] is undefined.                                  *)
(***************************************************************************)
EXTENDS Integers, Sequences, FiniteSets, TLC

VARIABLES
  pc,                \* position of the command in preRun()/run()
  runNo,             \* which invocation of the command this is
  project,           \* this.project is defined
  options,           \* the CommandLineOptions of the invocation
  dirs,              \* filesystem: the directories that exist
  files,             \* filesystem: path -> content of the regular files
  tmp,               \* filesystem: temporary files, cnfPath -> content
  overwriteKeyPath,  \* local of run(): TRUE, or FALSE for undefined
  overwriteCertPath, \* local of run(): TRUE, or FALSE for undefined
  cnfPath,           \* local of run(): 0 until writeConfig returned
  argv,              \* arguments of the last env.shell.run('openssl', ...)
  trace,             \* the side effects of this invocation, in order
  outcome,           \* "none" | "ok" | "fatal" (FatalException) | "error"
  message,           \* what the exception that ended the invocation says
  prevOutcome,       \* outcome of the previous invocation
  dirs0, files0, tmp0 \* the filesystem when this invocation started

vars == <<pc, runNo, project, options, dirs, files, tmp, overwriteKeyPath,
          overwriteCertPath, cnfPath, argv, trace, outcome, message,
          prevOutcome, dirs0, files0, tmp0>>

\* Number of invocations in sequence a behaviour holds.
MaxRuns == 2

----------------------------------------------------------------------------
\* Program constants

DEFAULT_BITS == "2048"
DEFAULT_COUNTRY_NAME == "US"
DEFAULT_STATE_OR_PROVINCE_NAME == "Wisconsin"
DEFAULT_LOCALITY_NAME == "Madison"
DEFAULT_ORGANIZATION_NAME == "Ionic"
DEFAULT_COMMON_NAME == "localhost"

Rel(segs) == [abs |-> FALSE, segs |-> segs]
Abs(segs) == [abs |-> TRUE, segs |-> segs]

DEFAULT_KEY_FILE == Rel(<<".ionic", "ssl", "key.pem">>)
DEFAULT_CERT_FILE == Rel(<<".ionic", "ssl", "cert.pem">>)

\* The environment: process.cwd() and this.project.directory.
Cwd == <<"home", "app", "src">>
ProjectDirectory == <<"home", "app">>

----------------------------------------------------------------------------
\* path.resolve, path.dirname

\* Drops "." and resolves "..", left to right, as path.normalize does for an
\* absolute path (".." at the root stays at the root).
RECURSIVE NormalizeSegs(_, _)
NormalizeSegs(segs, acc) ==
  IF segs = <<>> THEN acc
  ELSE LET s == Head(segs) IN
       IF s = "." THEN NormalizeSegs(Tail(segs), acc)
       ELSE IF s = ".."
            THEN NormalizeSegs(Tail(segs),
                               IF acc = <<>> THEN acc ELSE SubSeq(acc, 1, Len(acc) - 1))
            ELSE NormalizeSegs(Tail(segs), Append(acc, s))

\* path.resolve(...ps): from the right, prepend arguments until one is
\* absolute; the working directory when none is.  Empty arguments add nothing.
RECURSIVE ResolveFrom(_, _)
ResolveFrom(ps, i) ==
  IF i = 0 THEN Cwd
  ELSE IF ps[i].abs THEN ps[i].segs
       ELSE ResolveFrom(ps, i - 1) \o ps[i].segs

PathResolve(ps) == NormalizeSegs(ResolveFrom(ps, Len(ps)), <<>>)

PathDirname(p) == IF p = <<>> THEN p ELSE SubSeq(p, 1, Len(p) - 1)

----------------------------------------------------------------------------
\* Option resolution (run, lines 121-131)

\* JavaScript truthiness of options[name]: undefined and '' are falsy.
TruthyText(o) == o.given /\ o.val # ""
TruthyPath(o) == o.given /\ (o.val.abs \/ o.val.segs # <<>>)

ProjectDirArg == IF project THEN Abs(ProjectDirectory) ELSE Rel(<<>>)

getDefaultKeyPath == PathResolve(<<ProjectDirArg, DEFAULT_KEY_FILE>>)
getDefaultCertPath == PathResolve(<<ProjectDirArg, DEFAULT_CERT_FILE>>)

keyPath ==
  IF TruthyPath(options["key-path"])
  THEN PathResolve(<<options["key-path"].val>>)
  ELSE PathResolve(<<Abs(getDefaultKeyPath)>>)

certPath ==
  IF TruthyPath(options["cert-path"])
  THEN PathResolve(<<options["cert-path"].val>>)
  ELSE PathResolve(<<Abs(getDefaultCertPath)>>)

keyPathDir == PathDirname(keyPath)
certPathDir == PathDirname(certPath)

OptionOr(name, default) ==
  IF TruthyText(options[name]) THEN options[name].val ELSE default

bits == OptionOr("bits", DEFAULT_BITS)
countryName == OptionOr("country-name", DEFAULT_COUNTRY_NAME)
stateOrProvinceName == OptionOr("state-or-province-name", DEFAULT_STATE_OR_PROVINCE_NAME)
localityName == OptionOr("locality-name", DEFAULT_LOCALITY_NAME)
organizationName == OptionOr("organization-name", DEFAULT_ORGANIZATION_NAME)
commonName == OptionOr("common-name", DEFAULT_COMMON_NAME)

\* The object literal of line 147, as lodash.toPairs enumerates it: own
\* properties in insertion order.
cnf ==
  << <<"bits", bits>>,
     <<"countryName", countryName>>,
     <<"stateOrProvinceName", stateOrProvinceName>>,
     <<"localityName", localityName>>,
     <<"organizationName", organizationName>>,
     <<"commonName", commonName>> >>

CnfGet(c, k) == LET i == CHOOSE j \in 1..Len(c) : c[j][1] = k IN c[i][2]

----------------------------------------------------------------------------
\* formatSubj (lines 162-172)

subjNames ==
  [k \in {"countryName", "stateOrProvinceName", "localityName",
          "organizationName", "commonName"} |->
     CASE k = "countryName" -> "C"
       [] k = "stateOrProvinceName" -> "ST"
       [] k = "localityName" -> "L"
       [] k = "organizationName" -> "O"
       [] k = "commonName" -> "CN"]

SubjHas(pair) == pair[1] \in DOMAIN subjNames

RECURSIVE Join(_, _)
Join(strs, sep) ==
  IF strs = <<>> THEN ""
  ELSE IF Len(strs) = 1 THEN strs[1]
       ELSE strs[1] \o sep \o Join(Tail(strs), sep)

\* Mutant of formatSubj: the pairs are not filtered by subjNames.
formatSubj_Unfiltered(c) ==
  LET parts == [i \in 1..Len(c) |->
                  (IF c[i][1] \in DOMAIN subjNames THEN subjNames[c[i][1]] ELSE "undefined")
                  \o "=" \o c[i][2]]
  IN "/" \o Join(parts, "/")

formatSubj(c) ==
  LET kept == SelectSeq(c, SubjHas)
      parts == [i \in 1..Len(kept) |-> subjNames[kept[i][1]] \o "=" \o kept[i][2]]
  IN "/" \o Join(parts, "/")

----------------------------------------------------------------------------
\* Filesystem (@ionic/utils-fs as the command uses it)

pathExists(p) == p \in dirs \/ p \in DOMAIN files

\* The directories fsMkdirp(p) makes sure of: p and its ancestors.
Prefixes(p) == {SubSeq(p, 1, k) : k \in 0..Len(p)}

Orig == [by |-> "orig", kind |-> "-", run |-> 0]
Generated(kind) == [by |-> "openssl", kind |-> kind, run |-> runNo]

Put(f, p, c) == [q \in DOMAIN f \cup {p} |-> IF q = p THEN c ELSE f[q]]
Remove(f, p) == [q \in DOMAIN f \ {p} |-> f[q]]

\* One side effect of the invocation.
Ev(ev, which, p, res) == [ev |-> ev, which |-> which, p |-> p, res |-> res]

\* An exception leaves run(): FatalException ("fatal") or an error of the
\* filesystem or shell layer ("error").
Throw(kind, msg) == outcome' = kind /\ message' = msg /\ pc' = "done"

----------------------------------------------------------------------------
\* preRun (lines 112-114)

\* SSLBaseCommand.checkForOpenSSL: passes when the tool is installed, is a
\* fatal error otherwise.
checkForOpenSSL(installed) == IF installed THEN "ok" ELSE "fatal"

PreRun ==
  /\ pc = "preRun"
  /\ \E installed \in BOOLEAN :
       IF checkForOpenSSL(installed) = "ok"
       THEN pc' = "run" /\ UNCHANGED <<outcome, message>>
       ELSE Throw("fatal", "Command not found: openssl")
  /\ UNCHANGED <<runNo, project, options, dirs, files, tmp, overwriteKeyPath,
                 overwriteCertPath, cnfPath, argv, trace, prevOutcome,
                 dirs0, files0, tmp0>>

----------------------------------------------------------------------------
\* run (lines 116-160)

\* Mutant of RunEntry: the project check is missing.
RunEntry_NoProjectCheck ==
  /\ pc = "run"
  /\ pc' = "ensureKeyDir"
  /\ UNCHANGED <<runNo, project, options, dirs, files, tmp, overwriteKeyPath,
                 overwriteCertPath, cnfPath, argv, trace, outcome, message,
                 prevOutcome, dirs0, files0, tmp0>>

\* lines 117-131: the project check; the paths and the subject fields are
\* the operators keyPath .. commonName above.
RunEntry ==
  /\ pc = "run"
  /\ IF ~project
     THEN Throw("fatal", "Cannot run ionic ssl generate outside a project directory.")
     ELSE pc' = "ensureKeyDir" /\ UNCHANGED <<outcome, message>>
  /\ UNCHANGED <<runNo, project, options, dirs, files, tmp, overwriteKeyPath,
                 overwriteCertPath, cnfPath, argv, trace, prevOutcome,
                 dirs0, files0, tmp0>>

\* Mutant of NeedsMkdir: fsMkdirp is called whether or not p exists.
NeedsMkdir_Always(p) == TRUE

\* ensureDirectory (lines 174-179): whether it calls fsMkdirp.
NeedsMkdir(p) == ~pathExists(p)

\* fsMkdirp either makes p and its missing ancestors, or fails having made
\* the ancestors down to some depth.
ensureDirectory(which, p, next) ==
  IF NeedsMkdir(p)
  THEN \/ /\ dirs' = dirs \cup Prefixes(p)
          /\ trace' = Append(trace, Ev("mkdir", which, p, "ok"))
          /\ pc' = next
          /\ UNCHANGED <<outcome, message>>
       \/ \E k \in 0..(Len(p) - 1) :
            /\ dirs' = dirs \cup Prefixes(SubSeq(p, 1, k))
            /\ trace' = Append(trace, Ev("mkdir", which, p, "EACCES"))
            /\ Throw("error", "EACCES")
  ELSE pc' = next /\ UNCHANGED <<dirs, trace, outcome, message>>

\* line 133
EnsureKeyDir ==
  /\ pc = "ensureKeyDir"
  /\ ensureDirectory("key", keyPathDir, "ensureCertDir")
  /\ UNCHANGED <<runNo, project, options, files, tmp, overwriteKeyPath,
                 overwriteCertPath, cnfPath, argv, prevOutcome,
                 dirs0, files0, tmp0>>

\* line 134
EnsureCertDir ==
  /\ pc = "ensureCertDir"
  /\ ensureDirectory("cert", certPathDir, "checkKey")
  /\ UNCHANGED <<runNo, project, options, files, tmp, overwriteKeyPath,
                 overwriteCertPath, cnfPath, argv, prevOutcome,
                 dirs0, files0, tmp0>>

\* Mutant of checkExistingFile: the prompt is shown without pathExists.
checkExistingFile_AlwaysPrompts(p, confirm) ==
  IF confirm
  THEN [prompted |-> TRUE, throws |-> FALSE, value |-> p \in dirs \/ p \in DOMAIN files]
  ELSE [prompted |-> TRUE, throws |-> TRUE, value |-> FALSE]

\* checkExistingFile (lines 181-195): whether the prompt is shown, whether
\* the call throws, and the value it returns (FALSE for undefined).
checkExistingFile(p, confirm) ==
  IF pathExists(p)
  THEN IF confirm
       THEN [prompted |-> TRUE, throws |-> FALSE, value |-> TRUE]
       ELSE [prompted |-> TRUE, throws |-> TRUE, value |-> FALSE]
  ELSE [prompted |-> FALSE, throws |-> FALSE, value |-> FALSE]

Answer(confirm) == IF confirm THEN "yes" ELSE "no"

\* Mutant of CheckKey: the key file is unlinked as soon as its prompt is
\* accepted, before the cert prompt.
CheckKey_UnlinkAtOnce ==
  /\ pc = "checkKey"
  /\ \E confirm \in BOOLEAN :
       LET r == checkExistingFile(keyPath, confirm) IN
       /\ r.prompted \/ confirm
       /\ IF r.throws
          THEN /\ trace' = Append(trace, Ev("prompt", "key", keyPath, "no"))
               /\ Throw("fatal", "Not overwriting")
               /\ UNCHANGED files
          ELSE /\ pc' = "checkCert"
               /\ files' = IF r.value THEN Remove(files, keyPath) ELSE files
               /\ trace' = IF r.prompted
                           THEN Append(trace, Ev("prompt", "key", keyPath, "yes"))
                           ELSE trace
               /\ UNCHANGED <<outcome, message>>
  /\ UNCHANGED <<runNo, project, options, dirs, tmp, overwriteKeyPath,
                 overwriteCertPath, cnfPath, argv, prevOutcome,
                 dirs0, files0, tmp0>>

\* line 136
CheckKey ==
  /\ pc = "checkKey"
  /\ \E confirm \in BOOLEAN :
       LET r == checkExistingFile(keyPath, confirm) IN
       /\ r.prompted \/ confirm
       /\ trace' = IF r.prompted
                   THEN Append(trace, Ev("prompt", "key", keyPath, Answer(confirm)))
                   ELSE trace
       /\ IF r.throws
          THEN Throw("fatal", "Not overwriting") /\ UNCHANGED overwriteKeyPath
          ELSE pc' = "checkCert" /\ overwriteKeyPath' = r.value /\ UNCHANGED <<outcome, message>>
  /\ UNCHANGED <<runNo, project, options, dirs, files, tmp, overwriteCertPath,
                 cnfPath, argv, prevOutcome, dirs0, files0, tmp0>>

\* line 137
CheckCert ==
  /\ pc = "checkCert"
  /\ \E confirm \in BOOLEAN :
       LET r == checkExistingFile(certPath, confirm) IN
       /\ r.prompted \/ confirm
       /\ trace' = IF r.prompted
                   THEN Append(trace, Ev("prompt", "cert", certPath, Answer(confirm)))
                   ELSE trace
       /\ IF r.throws
          THEN Throw("fatal", "Not overwriting") /\ UNCHANGED overwriteCertPath
          ELSE pc' = "unlinkKey" /\ overwriteCertPath' = r.value /\ UNCHANGED <<outcome, message>>
  /\ UNCHANGED <<runNo, project, options, dirs, files, tmp, overwriteKeyPath,
                 cnfPath, argv, prevOutcome, dirs0, files0, tmp0>>

\* fsUnlink(p): ENOENT when no file is at p; otherwise the file is
\* removed, unless the filesystem refuses (EACCES).
fsUnlink(which, p, next) ==
  IF p \in DOMAIN files
  THEN \/ /\ files' = Remove(files, p)
          /\ trace' = Append(trace, Ev("unlink", which, p, "ok"))
          /\ pc' = next
          /\ UNCHANGED <<outcome, message>>
       \/ /\ trace' = Append(trace, Ev("unlink", which, p, "EACCES"))
          /\ Throw("error", "EACCES")
          /\ UNCHANGED files
  ELSE /\ trace' = Append(trace, Ev("unlink", which, p, "ENOENT"))
       /\ Throw("error", "ENOENT")
       /\ UNCHANGED files

\* Mutant of UnlinkKey: the key file is left for openssl to overwrite.
UnlinkKey_Skipped ==
  /\ pc = "unlinkKey"
  /\ pc' = "unlinkCert"
  /\ UNCHANGED <<runNo, project, options, dirs, files, tmp, overwriteKeyPath,
                 overwriteCertPath, cnfPath, argv, trace, outcome, message,
                 prevOutcome, dirs0, files0, tmp0>>

\* lines 139-141
UnlinkKey ==
  /\ pc = "unlinkKey"
  /\ IF overwriteKeyPath
     THEN fsUnlink("key", keyPath, "unlinkCert")
     ELSE pc' = "unlinkCert" /\ UNCHANGED <<files, trace, outcome, message>>
  /\ UNCHANGED <<runNo, project, options, dirs, tmp, overwriteKeyPath,
                 overwriteCertPath, cnfPath, argv, prevOutcome,
                 dirs0, files0, tmp0>>

\* lines 143-145
UnlinkCert ==
  /\ pc = "unlinkCert"
  /\ IF overwriteCertPath
     THEN fsUnlink("cert", certPath, "writeConfig")
     ELSE pc' = "writeConfig" /\ UNCHANGED <<files, trace, outcome, message>>
  /\ UNCHANGED <<runNo, project, options, dirs, tmp, overwriteKeyPath,
                 overwriteCertPath, cnfPath, argv, prevOutcome,
                 dirs0, files0, tmp0>>

----------------------------------------------------------------------------
\* writeConfig (lines 197-217)

\* The template of lines 198-212 after trim(), line by line.
RenderConfig(c) ==
  << "[req]",
     "default_bits       = " \o CnfGet(c, "bits"),
     "distinguished_name = req_distinguished_name",
     "",
     "[req_distinguished_name]",
     "countryName                = " \o CnfGet(c, "countryName"),
     "stateOrProvinceName        = " \o CnfGet(c, "stateOrProvinceName"),
     "localityName               = " \o CnfGet(c, "localityName"),
     "organizationName           = " \o CnfGet(c, "organizationName"),
     "commonName                 = " \o CnfGet(c, "commonName"),
     "",
     "[SAN]",
     "subjectAltName=DNS:" \o CnfGet(c, "commonName") >>

\* tmpfilepath('ionic-ssl'): a path no temporary file has yet.
tmpfilepath == Cardinality(DOMAIN tmp) + 1

\* line 148: fsWriteFile either writes the file or fails (ENOSPC), and
\* writeConfig has no code after it.
WriteConfig ==
  /\ pc = "writeConfig"
  /\ \/ /\ tmp' = Put(tmp, tmpfilepath, RenderConfig(cnf))
        /\ cnfPath' = tmpfilepath
        /\ trace' = Append(trace, Ev("writeConfig", "-", <<>>, "ok"))
        /\ pc' = "shell"
        /\ UNCHANGED <<outcome, message>>
     \/ /\ trace' = Append(trace, Ev("writeConfig", "-", <<>>, "ENOSPC"))
        /\ Throw("error", "ENOSPC")
        /\ UNCHANGED <<tmp, cnfPath>>
  /\ UNCHANGED <<runNo, project, options, dirs, files, overwriteKeyPath,
                 overwriteCertPath, argv, prevOutcome, dirs0, files0, tmp0>>

----------------------------------------------------------------------------
\* The openssl invocation and the report (lines 150-159)

OpenSSLArgs ==
  << "req", "-x509", "-newkey", "rsa:" \o bits, "-nodes",
     "-subj", formatSubj(cnf), "-reqexts", "SAN", "-extensions", "SAN",
     "-config", cnfPath, "-days", "365", "-keyout", keyPath, "-out", certPath >>

\* What `openssl req -x509 -newkey ... -keyout k -out c` leaves behind: on
\* exit 0 the key at k and then the certificate at c; on a non-zero exit
\* nothing, or the key alone; nothing when the process cannot be spawned.
OpenSSLWrites(result) ==
  CASE result = "exit0" -> Put(Put(files, keyPath, Generated("key")), certPath, Generated("cert"))
    [] result = "exit1-key" -> Put(files, keyPath, Generated("key"))
    [] OTHER -> files

\* Mutant of ShellRun: the exit status of openssl is ignored.
ShellRun_IgnoresExit ==
  /\ pc = "shell"
  /\ argv' = OpenSSLArgs
  /\ \E result \in {"exit0", "exit1", "exit1-key", "ENOENT"} :
       /\ files' = OpenSSLWrites(result)
       /\ trace' = Append(trace, Ev("openssl", "-", <<>>, result))
       /\ pc' = "report"
  /\ UNCHANGED <<runNo, project, options, dirs, tmp, overwriteKeyPath,
                 overwriteCertPath, cnfPath, outcome, message, prevOutcome,
                 dirs0, files0, tmp0>>

\* line 150: env.shell.run resolves on exit 0 and rejects otherwise.
ShellRun ==
  /\ pc = "shell"
  /\ argv' = OpenSSLArgs
  /\ \E result \in {"exit0", "exit1", "exit1-key", "ENOENT"} :
       /\ files' = OpenSSLWrites(result)
       /\ trace' = Append(trace, Ev("openssl", "-", <<>>, result))
       /\ IF result = "exit0"
          THEN pc' = "report" /\ UNCHANGED <<outcome, message>>
          ELSE Throw("error", result)
  /\ UNCHANGED <<runNo, project, options, dirs, tmp, overwriteKeyPath,
                 overwriteCertPath, cnfPath, prevOutcome, dirs0, files0, tmp0>>

\* lines 152-159: the two paths and 'Generated key & certificate!'.
Report ==
  /\ pc = "report"
  /\ trace' = Append(trace, Ev("report", "-", <<>>, "ok"))
  /\ outcome' = "ok"
  /\ UNCHANGED message
  /\ pc' = "done"
  /\ UNCHANGED <<runNo, project, options, dirs, files, tmp, overwriteKeyPath,
                 overwriteCertPath, cnfPath, argv, prevOutcome,
                 dirs0, files0, tmp0>>

\* The operator runs the command again, in the same directory and with the
\* same options: a new process, whose locals start afresh.
Rerun ==
  /\ pc = "done"
  /\ runNo < MaxRuns
  /\ runNo' = runNo + 1
  /\ prevOutcome' = outcome
  /\ outcome' = "none"
  /\ message' = ""
  /\ pc' = "preRun"
  /\ trace' = <<>>
  /\ argv' = <<>>
  /\ cnfPath' = 0
  /\ overwriteKeyPath' = FALSE
  /\ overwriteCertPath' = FALSE
  /\ dirs0' = dirs
  /\ files0' = files
  /\ tmp0' = tmp
  /\ UNCHANGED <<project, options, dirs, files, tmp>>

----------------------------------------------------------------------------
\* Inputs and initial states

NoText == [given |-> FALSE, val |-> ""]
Text(s) == [given |-> TRUE, val |-> s]
NoPath == [given |-> FALSE, val |-> Rel(<<>>)]
Path(p) == [given |-> TRUE, val |-> p]

TextNames == {"bits", "country-name", "state-or-province-name", "locality-name",
              "organization-name", "common-name"}

\* A value the operator may give each text option.
Custom(name) ==
  CASE name = "bits" -> "4096"
    [] name = "country-name" -> "DE"
    [] name = "state-or-province-name" -> "Bavaria"
    [] name = "locality-name" -> "Munich"
    [] name = "organization-name" -> "Acme/Dev Team"
    [] name = "common-name" -> "example.test"

KeyPathChoices ==
  {NoPath, Path(Rel(<<>>)), Path(Rel(<<"tls.pem">>)), Path(Abs(<<"srv", "tls", "dev.key">>))}

CertPathChoices ==
  {NoPath, Path(Rel(<<>>)), Path(Rel(<<".", "..", "src", "tls.pem">>)),
   Path(Abs(<<"srv", "tls", "dev.crt">>))}

MkOptions(k, c, t) ==
  [n \in TextNames \cup {"key-path", "cert-path"} |->
     IF n = "key-path" THEN k ELSE IF n = "cert-path" THEN c ELSE t[n]]

\* Every text option absent, or every one given.
TextProfiles == {[n \in TextNames |-> NoText], [n \in TextNames |-> Text(Custom(n))]}

\* Each text option absent, given empty, or given.
TextChoices ==
  {[n \in TextNames |->
      CASE c[n] = "absent" -> NoText
        [] c[n] = "empty" -> Text("")
        [] c[n] = "given" -> Text(Custom(n))] :
     c \in [TextNames -> {"absent", "empty", "given"}]}

BaseDirs == Prefixes(Cwd)
IonicChains == {{}, {<<"home", "app", ".ionic">>},
                {<<"home", "app", ".ionic">>, <<"home", "app", ".ionic", "ssl">>}}
SrvChains == {{}, {<<"srv">>}, {<<"srv">>, <<"srv", "tls">>}}

\* The paths a key or certificate file can be at.
CandidateFiles ==
  { <<"home", "app", ".ionic", "ssl", "key.pem">>,
    <<"home", "app", ".ionic", "ssl", "cert.pem">>,
    <<"home", "app", "src", "tls.pem">>,
    <<"srv", "tls", "dev.key">>,
    <<"srv", "tls", "dev.crt">> }

InitCommon ==
  /\ pc = "preRun"
  /\ runNo = 1
  /\ tmp = << >>
  /\ overwriteKeyPath = FALSE
  /\ overwriteCertPath = FALSE
  /\ cnfPath = 0
  /\ argv = <<>>
  /\ trace = <<>>
  /\ outcome = "none"
  /\ message = ""
  /\ prevOutcome = "none"
  /\ dirs0 = dirs
  /\ files0 = files
  /\ tmp0 = tmp

Init ==
  /\ project \in BOOLEAN
  /\ \E k \in KeyPathChoices, c \in CertPathChoices, t \in TextProfiles :
       options = MkOptions(k, c, t)
  /\ \E a \in IonicChains, b \in SrvChains :
       /\ dirs = BaseDirs \cup a \cup b
       /\ \E present \in SUBSET {f \in CandidateFiles : PathDirname(f) \in dirs} :
            files = [f \in present |-> Orig]
  /\ InitCommon

Next ==
  \/ PreRun
  \/ RunEntry
  \/ EnsureKeyDir
  \/ EnsureCertDir
  \/ CheckKey
  \/ CheckCert
  \/ UnlinkKey
  \/ UnlinkCert
  \/ WriteConfig
  \/ ShellRun
  \/ Report
  \/ Rerun

Spec == Init /\ [][Next]_vars

\* The invocations inside a project whose destination files exist unless a
\* path option moves them, under every combination of the text options.
InitArgs ==
  /\ project = TRUE
  /\ \E k \in {NoPath, Path(Abs(<<"srv", "tls", "dev.key">>))},
        c \in {NoPath, Path(Rel(<<"tls.pem">>))},
        t \in TextChoices :
       options = MkOptions(k, c, t)
  /\ dirs = BaseDirs \cup {<<"home", "app", ".ionic">>, <<"home", "app", ".ionic", "ssl">>}
  /\ files = [f \in {<<"home", "app", ".ionic", "ssl", "key.pem">>,
                     <<"home", "app", ".ionic", "ssl", "cert.pem">>} |-> Orig]
  /\ InitCommon

SpecArgs == InitArgs /\ [][Next]_vars

----------------------------------------------------------------------------
\* Properties

Failed == pc = "done" /\ outcome \in {"fatal", "error"}
Succeeded == pc = "done" /\ outcome = "ok"

Happened(ev, which, res) ==
  \E i \in 1..Len(trace) :
    trace[i].ev = ev /\ trace[i].which = which /\ trace[i].res = res

Count(ev) == Cardinality({i \in 1..Len(trace) : trace[i].ev = ev})

IsEv(e, ev) == e.ev = ev
IsPrompt(e) == IsEv(e, "prompt")
IsUnlink(e) == IsEv(e, "unlink")
IsMkdir(e) == IsEv(e, "mkdir")

Declined == \E i \in 1..Len(trace) : trace[i].ev = "prompt" /\ trace[i].res = "no"

\* The run failed at one of the steps C1 lists: outside a project or a
\* missing tool (nothing done yet), a directory that could not be created,
\* a declined prompt, or openssl failing or not spawning.
FailedAtListedStep ==
  /\ Failed
  /\ trace = <<>> \/ trace[Len(trace)].ev \in {"mkdir", "prompt", "openssl"}

\* C1: whenever the command fails at one of those steps, every key/cert
\* file that existed before the run is still present with its original
\* content.
C1_FailureLeavesFilesUntouched ==
  FailedAtListedStep =>
    \A f \in DOMAIN files0 : f \in DOMAIN files /\ files[f] = files0[f]

\* C2: no destination file is unlinked unless every overwrite prompt shown
\* in the run was answered yes; once a prompt is declined the command has
\* failed with the fatal "Not overwriting", every file of the start is
\* still there with its content, and openssl was never invoked.
C2_NoDeletionUnlessAllConfirmed ==
  /\ Count("unlink") > 0 =>
       \A i \in 1..Len(trace) : trace[i].ev = "prompt" => trace[i].res = "yes"
  /\ Declined =>
       /\ pc = "done"
       /\ outcome = "fatal"
       /\ message = "Not overwriting"
       /\ files = files0
       /\ Count("openssl") = 0
       /\ argv = <<>>

\* The key overwrite was accepted, the cert overwrite declined.
C2_Witness ==
  /\ pc = "done"
  /\ Happened("prompt", "key", "yes")
  /\ Happened("prompt", "cert", "no")
  /\ keyPath # certPath
  /\ {keyPath, certPath} \subseteq DOMAIN files

\* C3: outside a project the command fails at once with a fatal error,
\* having created no directory, shown no prompt, deleted no file, written
\* no temporary config and invoked no subprocess.
C3_OutsideProjectNoSideEffect ==
  ~project =>
    /\ pc \in {"preRun", "run", "done"}
    /\ pc = "done" => outcome = "fatal"
    /\ dirs = dirs0
    /\ files = files0
    /\ tmp = tmp0
    /\ trace = <<>>
    /\ argv = <<>>

\* run() refused to go on outside a project, under path options that would
\* have needed a directory and met an existing file.
C3_Witness ==
  /\ ~project
  /\ pc = "done"
  /\ message = "Cannot run ionic ssl generate outside a project directory."
  /\ options["key-path"].given
  /\ keyPathDir \notin dirs
  /\ certPath \in DOMAIN files

\* C4: inside a project, with both destination files absent at the start,
\* once openssl has exited 0 no prompt was shown, no file was unlinked,
\* both files exist at the resolved paths, and the command ends in success.
C4_FreshPathsSucceed ==
  ( /\ project
    /\ keyPath \notin DOMAIN files0
    /\ certPath \notin DOMAIN files0
    /\ Happened("openssl", "-", "exit0") ) =>
      /\ Count("prompt") = 0
      /\ Count("unlink") = 0
      /\ keyPath \in DOMAIN files
      /\ certPath \in DOMAIN files
      /\ pc \in {"report", "done"}
      /\ pc = "done" => outcome = "ok"

\* A successful run that had to create both directories.
C4_Witness ==
  /\ Succeeded
  /\ keyPath \notin DOMAIN files0
  /\ certPath \notin DOMAIN files0
  /\ Happened("mkdir", "key", "ok")
  /\ Happened("mkdir", "cert", "ok")

\* C5: every successful run leaves a key and a cert file at the resolved
\* paths; a successful run that follows a successful run with the same
\* options creates no directory, prompts once for the key and once for the
\* cert file, unlinks both before openssl runs, and leaves the files this
\* run's openssl generated.
C5_RerunIdempotentOnPaths ==
  Succeeded =>
    /\ {keyPath, certPath} \subseteq DOMAIN files
    /\ (runNo > 1 /\ prevOutcome = "ok") =>
         /\ SelectSeq(trace, IsMkdir) = <<>>
         /\ SelectSeq(trace, IsPrompt) =
              << Ev("prompt", "key", keyPath, "yes"), Ev("prompt", "cert", certPath, "yes") >>
         /\ SelectSeq(trace, IsUnlink) =
              << Ev("unlink", "key", keyPath, "ok"), Ev("unlink", "cert", certPath, "ok") >>
         /\ \A i, j \in 1..Len(trace) :
              (trace[i].ev = "unlink" /\ trace[j].ev = "openssl") => i < j
         /\ files[keyPath] = Generated("key")
         /\ files[certPath] = Generated("cert")

\* The second of two successful runs, the first of which made a directory.
C5_Witness ==
  /\ Succeeded
  /\ runNo > 1
  /\ prevOutcome = "ok"
  /\ keyPathDir = <<"srv", "tls">>

\* The values the claim C6 names: the option as given, else the default.
GivenOr(name, default) ==
  IF options[name].given THEN options[name].val ELSE default

\* The option when given and not empty, else the default.
GivenNonEmptyOr(name, default) ==
  IF options[name].given /\ options[name].val # "" THEN options[name].val ELSE default

\* C6 as stated: openssl is invoked with rsa:<bits>, the subject
\* /C=../ST=../L=../O=../CN=.. and the resolved paths, each field being the
\* option's text whenever the option is supplied, the default otherwise.
C6_ArgsFromSuppliedOptions ==
  argv # <<>> =>
    /\ argv[4] = "rsa:" \o GivenOr("bits", "2048")
    /\ argv[6] = "-subj"
    /\ argv[7] = "/C=" \o GivenOr("country-name", "US")
                 \o "/ST=" \o GivenOr("state-or-province-name", "Wisconsin")
                 \o "/L=" \o GivenOr("locality-name", "Madison")
                 \o "/O=" \o GivenOr("organization-name", "Ionic")
                 \o "/CN=" \o GivenOr("common-name", "localhost")
    /\ argv[16] = "-keyout" /\ argv[17] = keyPath
    /\ argv[18] = "-out" /\ argv[19] = certPath

\* C6 amended: the same, each field being the option's text whenever the
\* option is supplied and not empty, and the default otherwise.
C6_ArgsFromNonEmptyOptions ==
  argv # <<>> =>
    /\ argv[4] = "rsa:" \o GivenNonEmptyOr("bits", "2048")
    /\ argv[6] = "-subj"
    /\ argv[7] = "/C=" \o GivenNonEmptyOr("country-name", "US")
                 \o "/ST=" \o GivenNonEmptyOr("state-or-province-name", "Wisconsin")
                 \o "/L=" \o GivenNonEmptyOr("locality-name", "Madison")
                 \o "/O=" \o GivenNonEmptyOr("organization-name", "Ionic")
                 \o "/CN=" \o GivenNonEmptyOr("common-name", "localhost")
    /\ argv[16] = "-keyout" /\ argv[17] = keyPath
    /\ argv[18] = "-out" /\ argv[19] = certPath

\* openssl was invoked with one field given, one given empty, one absent,
\* and a key path taken from the option.
C6_Witness ==
  /\ argv # <<>>
  /\ options["organization-name"] = Text("Acme/Dev Team")
  /\ options["common-name"] = Text("")
  /\ options["country-name"] = NoText
  /\ options["bits"] = Text("4096")
  /\ options["key-path"].given

\* C7: once the command has terminated, no temporary config file it wrote
\* exists any more.
C7_TempConfigDeleted ==
  pc = "done" => DOMAIN tmp \subseteq DOMAIN tmp0

\* The place of a side effect in the order of run().
Rank(e) ==
  CASE e.ev = "mkdir" /\ e.which = "key" -> 1
    [] e.ev = "mkdir" /\ e.which = "cert" -> 2
    [] e.ev = "prompt" /\ e.which = "key" -> 3
    [] e.ev = "prompt" /\ e.which = "cert" -> 4
    [] e.ev = "unlink" /\ e.which = "key" -> 5
    [] e.ev = "unlink" /\ e.which = "cert" -> 6
    [] e.ev = "writeConfig" -> 7
    [] e.ev = "openssl" -> 8
    [] e.ev = "report" -> 9

\* C8: the side effects of a run come in the order key directory, cert
\* directory, key prompt, cert prompt, key unlink, cert unlink, temporary
\* config, openssl, report, each at most once and none after one that
\* failed or was declined; a prompt is shown only for a file that existed;
\* the report follows an openssl that exited 0, and a failed openssl ends
\* the run.
C8_StepsInOrder ==
  /\ \A i, j \in 1..Len(trace) : i < j => Rank(trace[i]) < Rank(trace[j])
  /\ \A i \in 1..Len(trace) :
       i < Len(trace) => trace[i].res \in {"ok", "yes", "exit0"}
  /\ Happened("prompt", "key", "yes") \/ Happened("prompt", "key", "no") =>
       keyPath \in DOMAIN files0
  /\ Happened("prompt", "cert", "yes") \/ Happened("prompt", "cert", "no") =>
       certPath \in DOMAIN files0 /\ ~Happened("prompt", "key", "no")
  /\ Count("openssl") <= 1
  /\ Count("report") > 0 => Happened("openssl", "-", "exit0")
  /\ (Count("openssl") > 0 /\ ~Happened("openssl", "-", "exit0")) =>
       pc = "done" /\ outcome = "error" /\ Count("report") = 0
  /\ outcome = "ok" <=> Count("report") > 0

\* A run that prompted for both files, unlinked both, and reported.
C8_Witness ==
  /\ Succeeded
  /\ Len(trace) = 7
  /\ Count("prompt") = 2
  /\ Count("unlink") = 2

\* C9: when openssl is about to be invoked, neither resolved path holds a
\* file, a file that was there at the start having been unlinked by this
\* run after its prompt was accepted, and the temporary config is written.
C9_PathsClearAtInvocation ==
  pc = "shell" =>
    /\ keyPath \notin DOMAIN files
    /\ certPath \notin DOMAIN files
    /\ keyPath \in DOMAIN files0 =>
         Happened("prompt", "key", "yes") /\ Happened("unlink", "key", "ok")
    /\ certPath \in DOMAIN files0 =>
         Happened("prompt", "cert", "yes") /\ Happened("unlink", "cert", "ok")
    /\ cnfPath \in DOMAIN tmp
    /\ cnfPath \notin DOMAIN tmp0

\* openssl is about to run where both files existed at the start.
C9_Witness ==
  /\ pc = "shell"
  /\ keyPath # certPath
  /\ {keyPath, certPath} \subseteq DOMAIN files0

\* C10: every unlink the command performs targets a file that exists at
\* that moment, whatever the key and cert paths.
C10_UnlinkTargetsExist ==
  \A i \in 1..Len(trace) : trace[i].ev = "unlink" => trace[i].res # "ENOENT"

====
